---- MODULE Spec2Model ----
(***************************************************************************)
(* Model of the DevToolRadar widget (rosshardy/dev-tools-radar).           *)
(*                                                                         *)
(* The repository holds three versions of the radar component:             *)
(*   "radar"   src/src/components/DevToolRadar.tsx  (hash jitter, memoized) *)
(*   "part000" src/unnamed/part_000        (hash jitter, useCallback)      *)
(*   "demo"    src/src/demo.tsx            (Math.random jitter)            *)
(*                                                                         *)
(* Numbers.  JavaScript numbers are modelled by exact scaled integers:     *)
(*   ring radii        in 1/1000 of a viewBox unit,                        *)
(*   a tool's radius   in 1/1000000 of a viewBox unit,                     *)
(*   an angle          as the fraction num/den of a quarter turn (pi/2),   *)
(*   x and y           in 1/100000 of a viewBox unit,                      *)
(*   a random fraction in 1/100.                                           *)
(* A number is the record [nan, v]; NaN is what arithmetic on `undefined`  *)
(* produces.  Floating-point rounding error is not modelled.               *)
(***************************************************************************)
EXTENDS Integers, Sequences, FiniteSets, TLC

VARIABLES
    variant,          \* which version of the component is running
    tools,            \* toolsData, the loaded dataset
    geom,             \* ringRadii / centerX / centerY seen by positionTools
    positioned,       \* result of the last call of positionTools
    called,           \* has positionTools returned a result for these inputs
    threw,            \* has a call of positionTools ended in a TypeError
    props,            \* the props the parent passes to the component
    mounted,          \* has the component been rendered once
    scheduled,        \* is a render of the component scheduled
    pending,          \* the queued setPositionedTools update, if any
    positionedTools,  \* the positionedTools state of the last render
    memoizedPositionedTools,  \* the useMemo cell of DevToolRadar.tsx
    prev,             \* hook dependencies recorded by the last render
    drawn,            \* what the draw effect last put into the SVG
    passes,           \* positioning passes since mount / the last prop change
    alphabeticalTools,  \* the memoized alphabetical tool list
    searchTerm,       \* the searchTerm state
    filteredTools,    \* the memoized filtered tool list
    toolsByCategory,  \* the memoized boxes of the flow board
    computed,         \* which of the lists have been computed
    selectedTool,     \* the selectedTool state
    hoveredTool,      \* the hoveredTool state
    hoveredFromList,  \* the hoveredFromList state (DevToolRadar.tsx only)
    hoveredFromBlip,  \* the hoveredFromBlip state (DevToolRadar.tsx only)
    clicked           \* history: id of the tool of the last click

pvars == <<geom, positioned, called, threw>>

cvars == <<props, mounted, scheduled, pending, positionedTools,
           memoizedPositionedTools, prev, drawn, passes>>

lvars == <<alphabeticalTools, searchTerm, filteredTools, toolsByCategory, computed>>

uvars == <<selectedTool, hoveredTool, hoveredFromList, hoveredFromBlip, clicked>>

vars == <<variant, tools, pvars, cvars, lvars, uvars>>

----------------------------------------------------------------------------
(* Bounds *)

MaxTools == 3

\* renders in a row that position the tools, after which the model stops
\* following a render loop
MaxPasses == 3

\* most tools in a dataset of the interaction runs
MaxBlips == 2

\* longest id drawn from the hash alphabet
MaxIdLen == 6

----------------------------------------------------------------------------
(* Static tables *)

Variants == {"radar", "part000", "demo"}

RING_ORDER == <<"adopt", "trial", "evaluate", "aware">>

Assessments == {RING_ORDER[i] : i \in 1..Len(RING_ORDER)}

\* a value of tool.assessment that is none of the four recognized ones
Unrecognized == "other"

\* a value of tool.assessment that names a property every object inherits
\* from Object.prototype
InheritedKey == "constructor"

\* ids are strings, kept as their sequences of UTF-16 code units:
\* "a", "b", "c", "d"
Ids == {<<97>>, <<98>>, <<99>>, <<100>>}

\* titles and descriptions are strings too, kept as code units:
\* "Db", "cA", "Ba", "ad"
TitleOf(id) ==
    CASE id = <<97>>  -> <<68, 98>>
      [] id = <<98>>  -> <<99, 65>>
      [] id = <<99>>  -> <<66, 97>>
      [] OTHER        -> <<97, 100>>

\* "ab", "Bc", "cd", "DD"
DescriptionOf(id) ==
    CASE id = <<97>>  -> <<97, 98>>
      [] id = <<98>>  -> <<66, 99>>
      [] id = <<99>>  -> <<99, 100>>
      [] OTHER        -> <<68, 68>>

Tool(id, a) ==
    [id |-> id, title |-> TitleOf(id), description |-> DescriptionOf(id),
     assessment |-> a]

\* the tool "d" may also carry the inherited key as its assessment
ToolRecords ==
    {Tool(id, a) : id \in Ids, a \in Assessments \cup {Unrecognized}}
        \cup {Tool(<<100>>, InheritedKey)}

\* datasets: ids are unique within the collection
ToolSeqs ==
    UNION {{s \in [1..k -> ToolRecords] :
               \A i, j \in 1..k : i # j => s[i].id # s[j].id} : k \in 0..MaxTools}

----------------------------------------------------------------------------
(* JavaScript numbers *)

Num(v) == [nan |-> FALSE, v |-> v]

NaN == [nan |-> TRUE, v |-> 0]

\* a comparison with NaN is false
FLe(a, b) == ~a.nan /\ ~b.nan /\ a.v <= b.v

FLt(a, b) == ~a.nan /\ ~b.nan /\ a.v < b.v

----------------------------------------------------------------------------
(* hashCode: the 32-bit rolling hash, kept as two 16-bit halves *)

RECURSIVE hashLoop(_, _, _, _)
hashLoop(str, i, hi, lo) ==
    IF i > Len(str) THEN [hi |-> hi, lo |-> lo]
    ELSE LET t == 31 * lo + str[i]
         IN  hashLoop(str, i + 1, (31 * hi + (t \div 65536)) % 65536, t % 65536)

\* variant: return hash, without Math.abs
Abs32Omitted(h) == h

\* Math.abs of the signed 32-bit value hi*2^16 + lo
Abs32(h) ==
    IF h.hi < 32768 THEN h
    ELSE IF h.lo = 0 THEN [hi |-> 65536 - h.hi, lo |-> 0]
    ELSE [hi |-> 65535 - h.hi, lo |-> 65536 - h.lo]

hashCode(str) == Abs32(hashLoop(str, 1, 0, 0))

\* hash % 100, in hundredths: radiusRandom = (hash % 100) / 100
HashMod100(h) == (h.hi * 36 + h.lo) % 100

radiusRandom(id) == HashMod100(hashCode(id))

\* variant: ((hash * 7) % 100) / 100 - 1.5
angleRandomOffCentre(id) == ((HashMod100(hashCode(id)) * 7) % 100) - 150

\* ((hash * 7) % 100) / 100 - 0.5, in hundredths
angleRandom(id) == ((HashMod100(hashCode(id)) * 7) % 100) - 50

----------------------------------------------------------------------------
(* Math.random, Math.cos, Math.sin *)

\* a stream of Math.random() results is <<first, stride>>: its j-th draw is
\* (first + stride * (j - 1)) % 100 hundredths, a value of [0, 1)
RandomStreams == {<<0, 0>>, <<99, 0>>, <<0, 99>>, <<50, 7>>}

MathRandom(s, j) == (s[1] + s[2] * (j - 1)) % 100

\* Math.cos of the angle a.num/a.den quarter turns, in hundredths, by
\* Bhaskara's rational approximation cos(t*pi/2) ~ 4(1 - t^2)/(4 + t^2);
\* it has the sign and the zeros of the cosine on (-3, 3) quarter turns
MathCos(a) ==
    LET t == (1000 * a.num) \div a.den
    IN  (400 * (1000000 - t * t)) \div (4000000 + t * t)

\* Math.sin(t) = cos(pi/2 - t)
MathSin(a) == MathCos([num |-> a.den - a.num, den |-> a.den])

----------------------------------------------------------------------------
(* Ring geometry *)

\* ringRadii, in 1/1000 unit
ringRadii(maxRadius) ==
    [adopt    |-> maxRadius * 250,
     trial    |-> maxRadius * 450,
     evaluate |-> maxRadius * 700,
     aware    |-> maxRadius * 950]

Geometry(maxRadius, cx, cy) ==
    [maxRadius |-> maxRadius, ringRadii |-> ringRadii(maxRadius),
     centerX |-> cx, centerY |-> cy]

\* ringRadii[key]: undefined (NaN once used in arithmetic) for a key that
\* is not a ring
RingRadius(g, key) ==
    IF key \in DOMAIN g.ringRadii THEN Num(g.ringRadii[key]) ELSE NaN

\* RING_ORDER.indexOf(assessment), 0-based, -1 when absent
indexOf(a) ==
    IF a \in Assessments THEN (CHOOSE i \in 1..Len(RING_ORDER) : RING_ORDER[i] = a) - 1
    ELSE -1

\* ringRadii[RING_ORDER[RING_ORDER.indexOf(assessment) - 1]]
PrevRingRadius(g, a) ==
    LET i == indexOf(a) - 1
    IN  IF i >= 0 /\ i < Len(RING_ORDER) THEN RingRadius(g, RING_ORDER[i + 1]) ELSE NaN

\* variant: every band starts at the center
minRadiusFromCenter(v, g, a) == Num(0)

\* minRadius of the band a tool of this assessment is placed in
minRadius(v, g, a) ==
    IF v = "radar" /\ a = "aware" THEN RingRadius(g, "evaluate")
    ELSE IF a = "adopt" THEN Num(0)
    ELSE PrevRingRadius(g, a)

\* maxRadius of that band; the radar version uses 80% of the aware ring
maxRadius(v, g, a) ==
    IF v = "radar" /\ a = "aware"
    THEN Num(g.ringRadii.evaluate + ((g.ringRadii.aware - g.ringRadii.evaluate) * 8) \div 10)
    ELSE RingRadius(g, a)

----------------------------------------------------------------------------
(* positionTools *)

\* Object.entries(groupedTools): the keys of the grouping object in
\* insertion order, i.e. in order of first appearance in the input
RECURSIVE CategoryKeysFrom(_, _, _)
CategoryKeysFrom(ts, i, acc) ==
    IF i > Len(ts) THEN acc
    ELSE IF \E k \in 1..Len(acc) : acc[k] = ts[i].assessment
         THEN CategoryKeysFrom(ts, i + 1, acc)
         ELSE CategoryKeysFrom(ts, i + 1, Append(acc, ts[i].assessment))

\* variant: the groups are walked in ring order
CategoryKeysRingOrder(ts) ==
    SelectSeq(RING_ORDER \o <<Unrecognized>>,
              LAMBDA a : \E i \in 1..Len(ts) : ts[i].assessment = a)

CategoryKeys(ts) == CategoryKeysFrom(ts, 1, <<>>)

\* variant: tools.reduce without an initial value, which throws on []
groupingThrowsNoInitialValue(ts) ==
    \/ ts = <<>>
    \/ \E i \in 1..Len(ts) : ts[i].assessment = InheritedKey

\* the reduce step: acc[tool.assessment] of the fresh object {} is truthy
\* for an inherited key, no array is created and .push is not a function
groupingThrows(ts) == \E i \in 1..Len(ts) : ts[i].assessment = InheritedKey

\* groupedTools[assessment]: the tools of one assessment, in input order
toolsInRing(ts, a) == SelectSeq(ts, LAMBDA t : t.assessment = a)

\* variant: the quadrant is divided into n steps
AngleStepDenNoMargin(n) == n

\* angleStep = (Math.PI / 2) / (toolsInRing.length + 1), as the
\* denominator of a fraction of the quarter turn
AngleStepDen(n) == n + 1

\* variant: 0.3 + radiusRandom * 0.5
RadiusFractionWide(rr) == 300 + 5 * rr

\* 1000 * (0.3 + radiusRandom * 0.4), radiusRandom in hundredths
RadiusFraction(rr) == 300 + 4 * rr

\* variant: the jitter spans three steps
AngleJitterTenfold(ar) == 30 * ar

\* 1000 * angleRandom * 0.3, angleRandom in hundredths
AngleJitter(ar) == 3 * ar

\* randomRadius = minRadius + (maxRadius - minRadius) * (0.3 + radiusRandom * 0.4)
randomRadius(lo, hi, rr) ==
    IF lo.nan \/ hi.nan THEN NaN
    ELSE Num(lo.v * 1000 + (hi.v - lo.v) * RadiusFraction(rr))

\* variant: the first tool of a group sits on the quadrant edge
AngleZeroBased(n, index, ar) ==
    [num |-> 1000 * index + AngleJitter(ar), den |-> 1000 * AngleStepDen(n)]

\* angle = angleStep * (index + 1) + angleRandom * angleStep * 0.3
Angle(n, index, ar) ==
    [num |-> 1000 * (index + 1) + AngleJitter(ar), den |-> 1000 * AngleStepDen(n)]

\* centerX - randomRadius * Math.cos(angle)
Cartesian(center, radius, c) ==
    IF radius.nan THEN NaN ELSE Num(center * 100000 - (radius.v \div 1000) * c)

\* the body of toolsInRing.forEach for the tool at 0-based index in its
\* group of n; p is its 1-based place in the output (the demo version
\* draws Math.random() twice per tool)
PlaceTool(v, g, s, tool, n, index, p) ==
    LET a     == tool.assessment
        rr    == IF v = "demo" THEN MathRandom(s, 2 * p - 1) ELSE radiusRandom(tool.id)
        ar    == IF v = "demo" THEN MathRandom(s, 2 * p) - 50 ELSE angleRandom(tool.id)
        r     == randomRadius(minRadius(v, g, a), maxRadius(v, g, a), rr)
        angle == Angle(n, index, ar)
    IN  [id |-> tool.id, title |-> tool.title, description |-> tool.description,
         assessment |-> tool.assessment,
         position |-> [x |-> Cartesian(g.centerX, r, MathCos(angle)),
                       y |-> Cartesian(g.centerY, r, MathSin(angle)),
                       angle |-> angle,
                       radius |-> r]]

\* variant: the step is taken from the number of all tools
toolsInRingLengthOfAll(ts, a) == Len(ts)

\* toolsInRing.length, the count the angle step of a category is taken from
toolsInRingLength(ts, a) == Len(toolsInRing(ts, a))

RECURSIVE PlaceGroups(_, _, _, _, _, _)
PlaceGroups(v, g, s, ts, keys, acc) ==
    IF keys = <<>> THEN acc
    ELSE LET grp == toolsInRing(ts, Head(keys))
             n   == Len(grp)
             out == [i \in 1..n |->
                        PlaceTool(v, g, s, grp[i], toolsInRingLength(ts, Head(keys)),
                                  i - 1, Len(acc) + i)]
         IN  PlaceGroups(v, g, s, ts, Tail(keys), acc \o out)

positionTools(v, g, s, ts) == PlaceGroups(v, g, s, ts, CategoryKeys(ts), <<>>)

----------------------------------------------------------------------------
(* positionTools as a function of its inputs *)

\* the scenario's ring table, the default viewBox of the radar version
\* (1000 x 600, margin 40) and the default 600 x 600 pane of the demo version
Geometries ==
    {Geometry(100, 100, 100), Geometry(520, 560, 560), Geometry(280, 300, 300)}

\* aspectRatio is the fraction num/den
Props(w, h, num, den) == [width |-> w, height |-> h, aspectRatio |-> <<num, den>>]

\* width = 600, height = 600, aspectRatio = 5/3
DefaultProps == Props(600, 600, 5, 3)

\* null as an id, and as a tool
Null == <<>>

NoTool == [id |-> Null]

\* the component before its first render
Unmounted ==
    /\ selectedTool = NoTool
    /\ hoveredTool = NoTool
    /\ hoveredFromList = Null
    /\ hoveredFromBlip = Null
    /\ clicked = Null
    /\ mounted = FALSE
    /\ scheduled = TRUE
    /\ pending = [set |-> FALSE, value |-> <<>>]
    /\ positionedTools = <<>>
    /\ memoizedPositionedTools = <<>>
    /\ prev = [maxRadius |-> 0, centerX |-> 0, centerY |-> 0,
               hoveredFromList |-> Null, selectedTool |-> NoTool]
    /\ drawn = [done |-> FALSE]
    /\ passes = 0

\* the lists before they are computed
NoLists ==
    /\ alphabeticalTools = <<>>
    /\ searchTerm = <<>>
    /\ filteredTools = <<>>
    /\ toolsByCategory = <<>>
    /\ computed = {}

PInit ==
    /\ NoLists
    /\ variant \in Variants
    /\ tools \in ToolSeqs
    /\ geom \in Geometries
    /\ positioned = <<>>
    /\ called = FALSE
    /\ threw = FALSE
    /\ props = DefaultProps
    /\ Unmounted

\* ids for the hash: every string of at most MaxIdLen units over "a", "z"
\* and the unit 0xFFFF, "" among them, and "GydZG_", whose rolling hash
\* wraps to -2^31
HashAlphabet == {97, 122, 65535}

MinHashId == <<71, 121, 100, 90, 71, 95>>

HashIds ==
    UNION {[1..n -> HashAlphabet] : n \in 0..MaxIdLen} \cup {MinHashId}

\* datasets of one tool, and one of three: "", "zzzzzz" and "GydZG_"
HashDatasets ==
    {<<Tool(id, "trial")>> : id \in HashIds}
        \cup {<<Tool(<<>>, "adopt"), Tool(<<122, 122, 122, 122, 122, 122>>, "adopt"),
                Tool(MinHashId, "adopt")>>}

HInit ==
    /\ NoLists
    /\ variant \in {"radar", "part000"}
    /\ tools \in HashDatasets
    /\ geom = Geometry(100, 100, 100)
    /\ positioned = <<>>
    /\ called = FALSE
    /\ threw = FALSE
    /\ props = DefaultProps
    /\ Unmounted

\* the first call: it returns the placed tools or ends in a TypeError
CallPositionTools ==
    /\ ~called /\ ~threw
    /\ IF groupingThrows(tools)
       THEN /\ threw' = TRUE
            /\ UNCHANGED <<positioned, called>>
       ELSE /\ \E s \in RandomStreams :
                  positioned' = positionTools(variant, geom, s, tools)
            /\ called' = TRUE
            /\ UNCHANGED threw
    /\ UNCHANGED <<variant, tools, geom, cvars, lvars, uvars>>

\* a further call with the same tool sequence, ring radii and center
CallPositionToolsAgain ==
    /\ called
    /\ \E s \in RandomStreams : positioned' = positionTools(variant, geom, s, tools)
    /\ UNCHANGED <<variant, tools, geom, called, threw, cvars, lvars, uvars>>

PNext == CallPositionTools \/ CallPositionToolsAgain

SpecPosition == PInit /\ [][PNext]_vars

\* positionTools over the ids of the hash
HNext == CallPositionTools

SpecHash == HInit /\ [][HNext]_vars

----------------------------------------------------------------------------
(* The tool list, the search filter and the flow board *)

\* String.prototype.toLowerCase on ASCII code units
toLowerCase(str) ==
    [i \in 1..Len(str) |-> IF str[i] \in 65..90 THEN str[i] + 32 ELSE str[i]]

\* is a before b in the lexicographic order of the code units
RECURSIVE CodeUnitsBefore(_, _)
CodeUnitsBefore(a, b) ==
    IF b = <<>> THEN FALSE
    ELSE IF a = <<>> THEN TRUE
    ELSE IF Head(a) # Head(b) THEN Head(a) < Head(b)
    ELSE CodeUnitsBefore(Tail(a), Tail(b))

\* a.title.localeCompare(b.title) < 0: the collation compares the letters
\* first and their case last (titles that differ in case only are not
\* modelled)
localeCompareBefore(a, b) == CodeUnitsBefore(toLowerCase(a), toLowerCase(b))

\* Array.prototype.sort((a, b) => a.title.localeCompare(b.title)): a stable
\* sort, as the array it leaves behind
RECURSIVE InsertByTitle(_, _)
InsertByTitle(sorted, t) ==
    IF sorted = <<>> THEN <<t>>
    ELSE IF localeCompareBefore(t.title, Head(sorted).title)
         THEN <<t>> \o sorted
         ELSE <<Head(sorted)>> \o InsertByTitle(Tail(sorted), t)

RECURSIVE SortByTitle(_)
SortByTitle(arr) ==
    IF arr = <<>> THEN <<>>
    ELSE InsertByTitle(SortByTitle(SubSeq(arr, 1, Len(arr) - 1)), arr[Len(arr)])

\* variant: tools.sort(...) without the copy sorts toolsData itself
alphabeticalToolsInPlace(ts) ==
    [result |-> SortByTitle(ts), input |-> SortByTitle(ts)]

\* alphabeticalTools = [...tools].sort(...): the result, and the input
\* array as the call leaves it (the copy is sorted, not the input)
alphabeticalToolsMemo(ts) ==
    [result |-> SortByTitle(ts), input |-> ts]

\* String.prototype.includes
includes(str, sub) ==
    \E k \in 0..(Len(str) - Len(sub)) :
        \A i \in 1..Len(sub) : str[k + i] = sub[i]

\* !searchTerm.trim(): the term is empty or white space only
IsBlank(term) == \A i \in 1..Len(term) : term[i] \in {9, 10, 13, 32}

\* variant: the descriptions are not searched
filteredToolsTitleOnly(alphabetical, term) ==
    IF IsBlank(term) THEN alphabetical
    ELSE LET lowerSearchTerm == toLowerCase(term)
         IN  SelectSeq(alphabetical, LAMBDA t :
                 includes(toLowerCase(t.title), lowerSearchTerm))

\* filteredTools
filteredToolsMemo(alphabetical, term) ==
    IF IsBlank(term) THEN alphabetical
    ELSE LET lowerSearchTerm == toLowerCase(term)
         IN  SelectSeq(alphabetical, LAMBDA t :
                 \/ includes(toLowerCase(t.title), lowerSearchTerm)
                 \/ includes(toLowerCase(t.description), lowerSearchTerm))

CATEGORY_ORDER == <<"aware", "evaluate", "trial", "adopt">>

\* toolsByCategory: the groups of the reduce, each sorted by title in place
\* (the groups are arrays of their own), and the input array as it is left
toolsByCategoryMemo(ts) ==
    [result |-> [a \in {ts[i].assessment : i \in 1..Len(ts)} |->
                    SortByTitle(toolsInRing(ts, a))],
     input  |-> ts]

\* variant: the boxes in the order of the rings, adopt first
BoxesInRingOrder(grouped) ==
    [k \in 1..Len(RING_ORDER) |->
        [category |-> RING_ORDER[k],
         tools    |-> IF RING_ORDER[k] \in DOMAIN grouped
                      THEN grouped[RING_ORDER[k]] ELSE <<>>]]

\* (toolsByCategory[category] || []) for each category of CATEGORY_ORDER:
\* the boxes of the flow board, in the order they are shown
Boxes(grouped) ==
    [k \in 1..Len(CATEGORY_ORDER) |->
        [category |-> CATEGORY_ORDER[k],
         tools    |-> IF CATEGORY_ORDER[k] \in DOMAIN grouped
                      THEN grouped[CATEGORY_ORDER[k]] ELSE <<>>]]

\* search terms typed into the search box: "", " ", "a", "A", "bc", "z"
SearchTerms == {<<>>, <<32>>, <<97>>, <<65>>, <<98, 99>>, <<122>>}

----------------------------------------------------------------------------
(* The component: props, render, effects *)

PropValues == {DefaultProps, Props(1000, 600, 2, 1), Props(400, 400, 1, 1)}

margin == 40

viewBoxWidth == 1000

Min(a, b) == IF a <= b THEN a ELSE b

\* maxRadius, centerX, centerY and ringRadii as the component body
\* computes them from its props
ComponentGeometry(v, p) ==
    IF v = "demo"
    THEN Geometry(Min(p.width, p.height) \div 2 - 20, p.width \div 2, p.height \div 2)
    ELSE LET w == IF v = "radar" THEN viewBoxWidth ELSE p.width
             h == IF v = "radar"
                  THEN (viewBoxWidth * p.aspectRatio[2]) \div p.aspectRatio[1]
                  ELSE p.height
             r == Min(w - margin * 2, h - margin * 2)
         IN  Geometry(r, margin + r, margin + r)

\* SVG path commands, coordinates and radii in 1/1000 unit
MoveTo(x, y) == <<"M", x, y>>

LineTo(x, y) == <<"L", x, y>>

\* A rx ry x-axis-rotation large-arc-flag sweep-flag x y
ArcTo(r, largeArc, sweep, x, y) == <<"A", r, r, 0, largeArc, sweep, x, y>>

ClosePath == <<"Z">>

\* circle element of the demo version
Circle(cx, cy, r) == <<"circle", cx, cy, r>>

\* variant: every sector starts from the center
sectorPathFromCenter(g, innerRadius, outerRadius) ==
    LET cx == g.centerX * 1000
        cy == g.centerY * 1000
    IN  <<MoveTo(cx, cy), LineTo(cx, cy - outerRadius),
          ArcTo(outerRadius, 0, 0, cx - outerRadius, cy), ClosePath>>

\* sectorPath: the pie slice of the innermost ring, the donut sector of
\* the others
sectorPath(g, innerRadius, outerRadius) ==
    LET cx == g.centerX * 1000
        cy == g.centerY * 1000
    IN  IF innerRadius = 0
        THEN <<MoveTo(cx, cy), LineTo(cx, cy - outerRadius),
               ArcTo(outerRadius, 0, 0, cx - outerRadius, cy), ClosePath>>
        ELSE <<MoveTo(cx, cy - innerRadius), LineTo(cx, cy - outerRadius),
               ArcTo(outerRadius, 0, 0, cx - outerRadius, cy),
               LineTo(cx - innerRadius, cy),
               ArcTo(innerRadius, 0, 1, cx, cy - innerRadius), ClosePath>>

\* the rings that get a filled sector: RING_ORDER.slice(0, -1) in
\* DevToolRadar.tsx, RING_ORDER in part_000, none in demo
filledRings(v) ==
    IF v = "radar" THEN SubSeq(RING_ORDER, 1, Len(RING_ORDER) - 1)
    ELSE IF v = "part000" THEN RING_ORDER
    ELSE <<>>

\* innerRadius = index === 0 ? 0 : ringRadii[RING_ORDER[index - 1]], by the
\* 1-based place k of the ring
innerRadiusAt(g, k) == IF k = 1 THEN 0 ELSE g.ringRadii[RING_ORDER[k - 1]]

Sectors(v, g) ==
    [k \in 1..Len(filledRings(v)) |->
        [assessment |-> filledRings(v)[k],
         path |-> sectorPath(g, innerRadiusAt(g, k), g.ringRadii[filledRings(v)[k]])]]

\* arcPath: the quarter circle of radius r
arcPath(g, r) ==
    LET cx == g.centerX * 1000
        cy == g.centerY * 1000
    IN  <<MoveTo(cx, cy - r), ArcTo(r, 0, 0, cx - r, cy)>>

\* the ring outlines: arcs for visibleRings = RING_ORDER.slice(0, -1) in
\* DevToolRadar.tsx and for RING_ORDER in part_000, circles in demo
Outlines(v, g) ==
    IF v = "demo"
    THEN [k \in 1..Len(RING_ORDER) |->
            [assessment |-> RING_ORDER[k],
             path |-> <<Circle(g.centerX * 1000, g.centerY * 1000,
                               g.ringRadii[RING_ORDER[k]])>>]]
    ELSE LET visibleRings == IF v = "radar"
                             THEN SubSeq(RING_ORDER, 1, Len(RING_ORDER) - 1)
                             ELSE RING_ORDER
         IN  [k \in 1..Len(visibleRings) |->
                [assessment |-> visibleRings[k],
                 path |-> arcPath(g, g.ringRadii[visibleRings[k]])]]

\* labelRadius of the ring at 1-based place k, in 1/1000 unit
labelRadius(v, g, k) ==
    LET assessment == RING_ORDER[k]
    IN  IF v = "demo" THEN g.ringRadii[assessment]
        ELSE IF assessment = "adopt" THEN (g.ringRadii[assessment] * 6) \div 10
        ELSE IF v = "radar" /\ assessment = "aware"
             THEN g.ringRadii.evaluate
                     + ((g.maxRadius * 1000 - g.ringRadii.evaluate) * 4) \div 10
        ELSE (g.ringRadii[RING_ORDER[k - 1]] + g.ringRadii[assessment]) \div 2

\* the ring labels: the text is anchored labelRadius from the center on
\* the direction Math.PI / 4 (half of the quarter turn), dy lower
Labels(v, g) ==
    [k \in 1..Len(RING_ORDER) |->
        [assessment |-> RING_ORDER[k],
         radius |-> labelRadius(v, g, k),
         angle |-> [num |-> 1, den |-> 2],
         dy |-> IF v = "demo" THEN 5 ELSE 6]]

\* the blip circles and their numbers, one per element of positionedTools:
\* DevToolRadar.tsx enlarges the blip hovered from the list and the selected
\* one and dims the others while a list item is hovered (hoveredFromList is
\* truthy); part_000 and demo draw every blip alike. Opacity in tenths.
BlipCircles(v, state, fromList, selected) ==
    [i \in 1..Len(state) |->
        LET d == state[i]
            highlighted == v = "radar" /\ (fromList = d.id \/ selected.id = d.id)
        IN  [id |-> d.id,
             cx |-> d.position.x,
             cy |-> d.position.y,
             r |-> IF v = "radar" THEN (IF highlighted THEN 14 ELSE 10) ELSE 8,
             strokeWidth |-> IF highlighted THEN 3 ELSE 2,
             opacity |-> IF v = "radar" /\ fromList # <<>> /\ fromList # d.id
                         THEN 3 ELSE 10,
             number |-> i]]

\* what the draw effect puts into the SVG
Drawing(v, g, state, fromList, selected) ==
    [done |-> TRUE, tools |-> state, geom |-> g, sectors |-> Sectors(v, g),
     outlines |-> Outlines(v, g), labels |-> Labels(v, g),
     blips |-> BlipCircles(v, state, fromList, selected)]

\* variant: the draw effect without its guard
drawEffectUnguarded(v, g, state, fromList, selected, svg) ==
    Drawing(v, g, state, fromList, selected)

\* the body of the draw effect on the SVG svg: it returns at once when
\* positionedTools is empty (svgRef.current is set, effects run after the
\* commit), else it removes everything and draws anew
drawEffect(v, g, state, fromList, selected, svg) ==
    IF Len(state) = 0 THEN svg
    ELSE Drawing(v, g, state, fromList, selected)

\* datasets of the component: the catalogue's tools in catalogue order
IdOrder == <<<<97>>, <<98>>, <<99>>, <<100>>>>

\* (a dataset on which the grouping throws cannot be rendered at all)
Datasets ==
    {s \in ToolSeqs : ~groupingThrows(s) /\ \A i \in 1..Len(s) : s[i].id = IdOrder[i]}

Init ==
    /\ NoLists
    /\ variant \in Variants
    /\ tools \in Datasets
    /\ props \in PropValues
    /\ Unmounted
    /\ geom = Geometry(100, 100, 100)
    /\ positioned = <<>>
    /\ called = FALSE
    /\ threw = FALSE

\* variant: an effect without a dependency list
positioningEffectRunsEveryRender(v, first, positionToolsNew) == TRUE

\* does the positioning effect run in this render: its dependency lists are
\* [memoizedPositionedTools] (a memo with deps [positionTools]),
\* [positionTools] in part_000 and [] in demo
positioningEffectRuns(v, first, positionToolsNew) ==
    IF v = "demo" THEN first ELSE positionToolsNew

\* One render of DevToolRadar with the commit and the effects it schedules.
\* The queued state update is applied, the hooks compare their dependencies
\* with those of the previous render, the positioning effect calls
\* setPositionedTools (which schedules the next render) and the draw effect
\* redraws the SVG from the positionedTools of this render.
Render ==
    /\ scheduled
    /\ passes < MaxPasses
    /\ LET state == IF pending.set THEN pending.value ELSE positionedTools
           g     == ComponentGeometry(variant, props)
           first == ~mounted
           \* hoveredFromList and selectedTool are dependencies of the
           \* draw effect of DevToolRadar.tsx only
           deps  == [maxRadius |-> g.maxRadius, centerX |-> g.centerX,
                     centerY |-> g.centerY,
                     hoveredFromList |-> IF variant = "radar" THEN hoveredFromList
                                         ELSE Null,
                     selectedTool |-> IF variant = "radar" THEN selectedTool
                                      ELSE NoTool]
           \* useMemo(..., [maxRadius]) in DevToolRadar.tsx; a new object
           \* on every render in part_000 and demo
           ringRadiiNew == IF variant = "radar"
                           THEN first \/ prev.maxRadius # g.maxRadius
                           ELSE TRUE
           \* useCallback(..., [centerX, centerY, ringRadii])
           positionToolsNew ==
               \/ first
               \/ prev.centerX # g.centerX
               \/ prev.centerY # g.centerY
               \/ ringRadiiNew
           \* does the positioning effect run: deps [memoizedPositionedTools]
           \* (memo deps [positionTools]), [positionTools], []
           runs == positioningEffectRuns(variant, first, positionToolsNew)
           \* deps of the draw effect: positionedTools, centerX, centerY
           \* and maxRadius (radius in demo; ringRadii follows maxRadius)
           drawRuns == first \/ pending.set \/ prev # deps
       IN  /\ positionedTools' = state
           /\ \E s \in RandomStreams :
                 LET newPositions == positionTools(variant, g, s, tools)
                 IN  /\ pending' = IF runs THEN [set |-> TRUE, value |-> newPositions]
                                    ELSE [set |-> FALSE, value |-> <<>>]
                     /\ memoizedPositionedTools' =
                            IF variant = "radar" /\ runs THEN newPositions
                            ELSE memoizedPositionedTools
           /\ scheduled' = runs
           /\ passes' = IF runs THEN passes + 1 ELSE passes
           /\ drawn' = IF drawRuns
                       THEN drawEffect(variant, g, state, hoveredFromList,
                                       selectedTool, drawn)
                       ELSE drawn
           /\ prev' = deps
           /\ mounted' = TRUE
    \* the list memos of DevToolRadar.tsx
    /\ IF variant = "radar"
       THEN /\ alphabeticalTools' = alphabeticalToolsMemo(tools).result
            /\ filteredTools' = filteredToolsMemo(alphabeticalTools', searchTerm)
            /\ computed' = computed \cup {"alphabeticalTools"}
       ELSE UNCHANGED <<alphabeticalTools, filteredTools, computed>>
    /\ UNCHANGED <<variant, tools, props, pvars, searchTerm, toolsByCategory, uvars>>

\* the parent renders the component with other props (a resize)
SetProps ==
    /\ mounted
    /\ \E p \in PropValues : p # props /\ props' = p
    /\ scheduled' = TRUE
    /\ passes' = 0
    /\ UNCHANGED <<variant, tools, mounted, pending, positionedTools,
                   memoizedPositionedTools, prev, drawn, pvars, lvars, uvars>>

Next == Render \/ SetProps

Spec == Init /\ [][Next]_vars

----------------------------------------------------------------------------
(* The lists as a state machine of their own *)

LInit ==
    /\ NoLists
    /\ variant = "radar"
    /\ tools \in ToolSeqs
    /\ geom = Geometry(520, 560, 560)
    /\ positioned = <<>>
    /\ called = FALSE
    /\ threw = FALSE
    /\ props = DefaultProps
    /\ Unmounted

\* useMemo(() => [...tools].sort(...), [])
ComputeAlphabeticalTools ==
    /\ "alphabeticalTools" \notin computed
    /\ alphabeticalTools' = alphabeticalToolsMemo(tools).result
    /\ filteredTools' = filteredToolsMemo(alphabeticalTools', searchTerm)
    /\ tools' = alphabeticalToolsMemo(tools).input
    /\ computed' = computed \cup {"alphabeticalTools"}
    /\ UNCHANGED <<variant, pvars, cvars, searchTerm, toolsByCategory, uvars>>

\* the search input's onChange (the clear button sets ""), and the
\* filteredTools memo of the render that follows
SetSearchTerm ==
    /\ "alphabeticalTools" \in computed
    /\ \E term \in SearchTerms :
          /\ term # searchTerm
          /\ searchTerm' = term
          /\ filteredTools' = filteredToolsMemo(alphabeticalTools, term)
    /\ scheduled' = TRUE
    /\ passes' = 0
    /\ UNCHANGED <<variant, tools, pvars, props, mounted, pending, positionedTools,
                   memoizedPositionedTools, prev, drawn, alphabeticalTools,
                   toolsByCategory, computed, uvars>>

\* the toolsByCategory memo of the flow board and the boxes it renders
ComputeToolsByCategory ==
    /\ "toolsByCategory" \notin computed
    /\ ~threw
    /\ IF groupingThrows(tools)
       THEN /\ threw' = TRUE
            /\ UNCHANGED <<tools, toolsByCategory, computed>>
       ELSE /\ toolsByCategory' = Boxes(toolsByCategoryMemo(tools).result)
            /\ tools' = toolsByCategoryMemo(tools).input
            /\ computed' = computed \cup {"toolsByCategory"}
            /\ UNCHANGED threw
    /\ UNCHANGED <<variant, geom, positioned, called, cvars,
                   alphabeticalTools, searchTerm, filteredTools, uvars>>

LNext ==
    \/ ComputeAlphabeticalTools
    \/ SetSearchTerm
    \/ ComputeToolsByCategory
    \/ CallPositionTools

SpecLists == LInit /\ [][LNext]_vars

----------------------------------------------------------------------------
(* Hover, click and the details panel *)

\* variant: a tool is made up for an id that is not found
findOrMakeUp(pt, toolId) ==
    IF \E i \in 1..Len(pt) : pt[i].id = toolId
    THEN pt[CHOOSE i \in 1..Len(pt) :
                /\ pt[i].id = toolId
                /\ \A j \in 1..(i - 1) : pt[j].id # toolId]
    ELSE [id |-> toolId]

\* positionedTools.find(t => t.id === toolId), NoTool for undefined
find(pt, toolId) ==
    IF \E i \in 1..Len(pt) : pt[i].id = toolId
    THEN pt[CHOOSE i \in 1..Len(pt) :
                /\ pt[i].id = toolId
                /\ \A j \in 1..(i - 1) : pt[j].id # toolId]
    ELSE NoTool

\* variant: leaving a list item does not reset hoveredTool
handleToolListHoverNoReset(pt, hovered, toolId) ==
    IF toolId # Null
    THEN IF find(pt, toolId).id # Null THEN find(pt, toolId) ELSE hovered
    ELSE hovered

\* handleToolListHover(toolId): the hoveredTool it leaves
handleToolListHover(pt, hovered, toolId) ==
    IF toolId # Null
    THEN IF find(pt, toolId).id # Null THEN find(pt, toolId) ELSE hovered
    ELSE NoTool

\* variant: a click on the selected tool's item deselects it
handleToolListClickToggle(pt, selected, toolId) ==
    IF find(pt, toolId).id # Null
    THEN IF selected.id = toolId THEN NoTool ELSE find(pt, toolId)
    ELSE selected

\* handleToolListClick(toolId): the selectedTool it leaves
handleToolListClick(pt, selected, toolId) ==
    IF find(pt, toolId).id # Null THEN find(pt, toolId) ELSE selected

\* variant: the preview of the hovered tool hides the selection
DetailsPanelHoverFirst(selected, hovered) ==
    IF hovered.id # Null THEN [kind |-> "tool-preview", tool |-> hovered]
    ELSE IF selected.id # Null THEN [kind |-> "tool-details", tool |-> selected]
    ELSE [kind |-> "placeholder", tool |-> NoTool]

\* the details panel: selectedTool ? details : hoveredTool ? preview :
\* placeholder
DetailsPanel(selected, hovered) ==
    IF selected.id # Null THEN [kind |-> "tool-details", tool |-> selected]
    ELSE IF hovered.id # Null THEN [kind |-> "tool-preview", tool |-> hovered]
    ELSE [kind |-> "placeholder", tool |-> NoTool]

\* the blips under the pointer's reach: the circles of the last drawing
\* (a circle with a NaN coordinate is not rendered)
Blips ==
    IF drawn.done
    THEN {drawn.tools[i] : i \in {j \in 1..Len(drawn.tools) :
                                     /\ ~drawn.tools[j].position.x.nan
                                     /\ ~drawn.tools[j].position.y.nan}}
    ELSE {}

\* the state setters were called: React renders again unless every one of
\* them was given the value its state already holds
Rerender ==
    /\ LET changed == <<selectedTool', hoveredTool', hoveredFromList', hoveredFromBlip'>>
                          # <<selectedTool, hoveredTool, hoveredFromList, hoveredFromBlip>>
       IN  /\ scheduled' = (scheduled \/ changed)
           /\ passes' = IF changed THEN 0 ELSE passes
    /\ UNCHANGED <<props, mounted, pending, positionedTools,
                   memoizedPositionedTools, prev>>

\* id of the blip the pointer is over, as the last mouseenter and mouseleave
\* left it (hoveredTool is set by the blips alone in part_000 and demo)
PointerOver == IF variant = "radar" THEN hoveredFromBlip ELSE hoveredTool.id

\* d3.select(event.target).transition().attr('r', r): the circle of the
\* blip once the transition has ended
TransitionRadius(id, r) ==
    [drawn EXCEPT !.blips =
        [i \in 1..Len(drawn.blips) |->
            IF drawn.blips[i].id = id THEN [drawn.blips[i] EXCEPT !.r = r]
            ELSE drawn.blips[i]]]

\* mouseenter on a blip
BlipMouseEnter ==
    /\ \E d \in Blips :
          /\ PointerOver \in {Null, d.id}
          /\ hoveredTool' = d
          /\ hoveredFromBlip' = IF variant = "radar" THEN d.id ELSE hoveredFromBlip
          /\ drawn' = TransitionRadius(d.id, IF variant = "radar" THEN 14 ELSE 12)
    /\ UNCHANGED <<variant, tools, pvars, lvars, selectedTool, hoveredFromList, clicked>>
    /\ Rerender

\* mouseleave on the blip the pointer is over
BlipMouseLeave ==
    /\ \E d \in Blips :
          /\ PointerOver = d.id
          /\ drawn' = TransitionRadius(d.id, IF variant = "radar" THEN 10 ELSE 8)
    /\ hoveredTool' = NoTool
    /\ hoveredFromBlip' = Null
    /\ UNCHANGED <<variant, tools, pvars, lvars, selectedTool, hoveredFromList, clicked>>
    /\ Rerender

\* click on a blip
BlipClick ==
    /\ \E d \in Blips :
          /\ selectedTool' = d
          /\ clicked' = d.id
    /\ UNCHANGED <<variant, tools, pvars, lvars, hoveredTool, hoveredFromList,
                   hoveredFromBlip, drawn>>
    /\ Rerender

\* the items of the tool list of DevToolRadar.tsx: they are rendered from
\* the first render on, before the positioning effect has filled
\* positionedTools
ListItems ==
    IF variant = "radar" /\ mounted
    THEN {filteredTools[i].id : i \in 1..Len(filteredTools)}
    ELSE {}

\* onMouseEnter of a list item
ListMouseEnter ==
    /\ \E toolId \in ListItems :
          /\ hoveredFromList' = toolId
          /\ hoveredTool' = handleToolListHover(positionedTools, hoveredTool, toolId)
    /\ UNCHANGED <<variant, tools, pvars, lvars, selectedTool, hoveredFromBlip, clicked,
                   drawn>>
    /\ Rerender

\* onMouseLeave of a list item
ListMouseLeave ==
    /\ ListItems # {}
    /\ hoveredFromList' = Null
    /\ hoveredTool' = handleToolListHover(positionedTools, hoveredTool, Null)
    /\ UNCHANGED <<variant, tools, pvars, lvars, selectedTool, hoveredFromBlip, clicked,
                   drawn>>
    /\ Rerender

\* onClick of a list item
ListClick ==
    /\ \E toolId \in ListItems :
          /\ selectedTool' = handleToolListClick(positionedTools, selectedTool, toolId)
          /\ clicked' = toolId
    /\ UNCHANGED <<variant, tools, pvars, lvars, hoveredTool, hoveredFromList,
                   hoveredFromBlip, drawn>>
    /\ Rerender

\* datasets of the interaction runs
\* (for the pointer a category is a ring that places its tools or a key that
\* leaves them without coordinates: one of each)
UIDatasets ==
    {s \in Datasets :
        /\ Len(s) <= MaxBlips
        /\ \A i \in 1..Len(s) : s[i].assessment \in {"adopt", Unrecognized}}

UIInit ==
    /\ NoLists
    /\ variant \in Variants
    /\ tools \in UIDatasets
    /\ props = DefaultProps
    /\ Unmounted
    /\ geom = Geometry(100, 100, 100)
    /\ positioned = <<>>
    /\ called = FALSE
    /\ threw = FALSE

UINext ==
    \/ Render
    \/ BlipMouseEnter
    \/ BlipMouseLeave
    \/ BlipClick
    \/ ListMouseEnter
    \/ ListMouseLeave
    \/ ListClick
    \/ SetSearchTerm

SpecUI == UIInit /\ [][UINext]_vars

----------------------------------------------------------------------------
(* Vocabulary of the properties *)

Recognized(t) == t.assessment \in Assessments

\* place of the tool with this id in the input
InputIndex(id) == CHOOSE i \in 1..Len(tools) : tools[i].id = id

\* first place in the input of a tool of this assessment
FirstIndex(a) ==
    CHOOSE i \in 1..Len(tools) :
        /\ tools[i].assessment = a
        /\ \A j \in 1..(i - 1) : tools[j].assessment # a

\* ring bounds of a recognized category, in 1/1000 unit: the outer radius
\* of the previous ring (0 for adopt) and the category's own ring radius
InnerBound(a) ==
    IF a = "adopt" THEN 0 ELSE geom.ringRadii[RING_ORDER[indexOf(a)]]

OuterBound(a) == geom.ringRadii[a]

\* inner + (f/1000) * (outer - inner), in 1/1000000 unit
BandPoint(a, f) == InnerBound(a) * 1000 + f * (OuterBound(a) - InnerBound(a))

\* number of tools of t's assessment in the input, and t's 1-based rank
\* among them
GroupSize(t) == Len(toolsInRing(tools, t.assessment))

GroupRank(t) ==
    Cardinality({i \in 1..InputIndex(t.id) : tools[i].assessment = t.assessment})

\* a/b compared as fractions
FracLt(a, b) == a.num * b.den < b.num * a.den

FracLe(a, b) == a.num * b.den <= b.num * a.den

\* the base angle rank * 90 / (n + 1) degrees, as a fraction of 90 degrees
BaseAngle(t) == [num |-> GroupRank(t), den |-> GroupSize(t) + 1]

PlacedSet == {positioned[i] : i \in 1..Len(positioned)}

----------------------------------------------------------------------------
(* C1: two calls of positionTools with the same tool sequence, ring radii
   and center return outputs that are equal in every field: a further call
   never changes the result of the previous one. *)
C1_Determinism == [][called => positioned' = positioned]_vars

(* C2 (as stated): every placed tool of each of the four categories has its
   radius within [inner + 0.3*span, inner + 0.7*span] of its own ring. *)
C2_ContainmentAllRings ==
    called => \A p \in PlacedSet :
        Recognized(p) =>
            /\ FLe(Num(BandPoint(p.assessment, 300)), p.position.radius)
            /\ FLe(p.position.radius, Num(BandPoint(p.assessment, 700)))

(* C2 (amended): adopt, trial and evaluate tools, and aware tools of the
   part_000 and demo versions, have their radius within
   [inner + 0.3*span, inner + 0.7*span]; aware tools of DevToolRadar.tsx have
   it within [inner + 0.24*span, inner + 0.56*span]; in every case
   inner <= radius <= outer. *)
C2_Containment ==
    called => \A p \in PlacedSet :
        Recognized(p) =>
            LET a == p.assessment
                r == p.position.radius
            IN  /\ IF variant = "radar" /\ a = "aware"
                   THEN /\ FLe(Num(BandPoint(a, 240)), r)
                        /\ FLe(r, Num(BandPoint(a, 560)))
                   ELSE /\ FLe(Num(BandPoint(a, 300)), r)
                        /\ FLe(r, Num(BandPoint(a, 700)))
                /\ FLe(Num(BandPoint(a, 0)), r)
                /\ FLe(r, Num(BandPoint(a, 1000)))

\* an aware tool of DevToolRadar.tsx placed below 30% of its ring's span
C2_Witness ==
    /\ called
    /\ variant = "radar"
    /\ \E p \in PlacedSet :
          /\ p.assessment = "aware"
          /\ FLt(p.position.radius, Num(BandPoint("aware", 300)))

(* C3: the output has exactly as many elements as the input has tools of a
   recognized category, and each of them appears exactly once, its fields
   unchanged. *)
C3_Completeness ==
    called =>
        /\ Len(positioned) = Cardinality({i \in 1..Len(tools) : Recognized(tools[i])})
        /\ \A i \in 1..Len(tools) :
              Recognized(tools[i]) =>
                  Cardinality({j \in 1..Len(positioned) :
                      /\ positioned[j].id = tools[i].id
                      /\ positioned[j].title = tools[i].title
                      /\ positioned[j].description = tools[i].description
                      /\ positioned[j].assessment = tools[i].assessment}) = 1

(* C4: a tool whose assessment is not one of the four recognized values
   never appears in the output. *)
C4_UnrecognizedDropped ==
    called => \A p \in PlacedSet : Recognized(p)

(* C5 (as stated): the output lists adopt tools first, then trial, then
   evaluate, then aware, and within a category keeps the input order. *)
C5_RingOrder ==
    called => \A i, j \in 1..Len(positioned) :
        (i < j /\ Recognized(positioned[i]) /\ Recognized(positioned[j])) =>
            /\ indexOf(positioned[i].assessment) <= indexOf(positioned[j].assessment)
            /\ positioned[i].assessment = positioned[j].assessment
                   => InputIndex(positioned[i].id) < InputIndex(positioned[j].id)

(* C5 (amended): the output is grouped by category, the categories in the
   order of their first appearance in the input, and within a category the
   tools keep their relative input order. *)
C5_FirstAppearanceOrder ==
    called => \A i, j \in 1..Len(positioned) :
        (i < j /\ Recognized(positioned[i]) /\ Recognized(positioned[j])) =>
            /\ FirstIndex(positioned[i].assessment) <= FirstIndex(positioned[j].assessment)
            /\ positioned[i].assessment = positioned[j].assessment
                   => InputIndex(positioned[i].id) < InputIndex(positioned[j].id)

\* a tool of a later ring is emitted before a tool of an earlier ring
C5_Witness ==
    /\ called
    /\ \E i, j \in 1..Len(positioned) :
          /\ i < j
          /\ Recognized(positioned[i]) /\ Recognized(positioned[j])
          /\ indexOf(positioned[i].assessment) > indexOf(positioned[j].assessment)

(* C6: of two tools of one category, the one earlier in the input has the
   smaller or equal base angle and, after jitter, the strictly smaller
   final angle. *)
C6_AngularOrder ==
    called => \A p, q \in PlacedSet :
        (p.assessment = q.assessment /\ InputIndex(p.id) < InputIndex(q.id)) =>
            /\ FracLe(BaseAngle(p), BaseAngle(q))
            /\ FracLt(p.position.angle, q.position.angle)

\* neighbours whose jitter narrows their gap: the earlier one is pushed
\* up from its base angle, the later one down
C6_Witness ==
    /\ called
    /\ \E p, q \in PlacedSet :
          /\ p.assessment = q.assessment
          /\ GroupRank(q) = GroupRank(p) + 1
          /\ FracLt(BaseAngle(p), p.position.angle)
          /\ FracLt(q.position.angle, BaseAngle(q))

(* C7: every placed tool has x <= centerX and y <= centerY. *)
C7_QuadrantOnly ==
    called => \A p \in PlacedSet :
        /\ FLe(p.position.x, Num(geom.centerX * 100000))
        /\ FLe(p.position.y, Num(geom.centerY * 100000))

\* the scenario: rings 25/45/70/95, center (100,100), three trial tools
\* with ids "a", "b", "c"
Scenario ==
    /\ called
    /\ geom = Geometry(100, 100, 100)
    /\ tools = <<Tool(<<97>>, "trial"), Tool(<<98>>, "trial"), Tool(<<99>>, "trial")>>

\* everything the scenario expects but the radius band
ScenarioAngles ==
    /\ Len(positioned) = 3
    /\ \A i \in 1..Len(positioned) :
          LET a == positioned[i].position.angle
              d == a.num * 4000 - i * 1000 * a.den    \* 4000*den*(angle - i/4)
          IN  /\ d <= 300 * a.den                      \* 6.75 degrees = 0.075 * 90
              /\ -d <= 300 * a.den
              /\ FLt(positioned[i].position.x, Num(100 * 100000))
              /\ FLt(positioned[i].position.y, Num(100 * 100000))

(* C10 (as stated): in the scenario the output has 3 placed tools, each
   with radius in [31,38], angles within 6.75 degrees of 22.5, 45 and 67.5
   degrees, and x < 100, y < 100. *)
C10_ScenarioAsStated ==
    Scenario =>
        /\ ScenarioAngles
        /\ \A p \in PlacedSet :
              /\ FLe(Num(31000000), p.position.radius)
              /\ FLe(p.position.radius, Num(38000000))

(* C10 (amended): as stated, but with each radius in [31,39], the band from
   0.3 to 0.7 of the span 20 above the inner radius 25. *)
C10_Scenario ==
    Scenario =>
        /\ ScenarioAngles
        /\ \A p \in PlacedSet :
              /\ FLe(Num(31000000), p.position.radius)
              /\ FLe(p.position.radius, Num(39000000))

\* the scenario has been run and a tool lies beyond radius 38
C10_Witness ==
    /\ Scenario
    /\ \E p \in PlacedSet : FLt(Num(38000000), p.position.radius)

\* no render is scheduled: the component has settled
Quiescent == mounted /\ ~scheduled

\* the outputs positionTools can return for the current props
CurrentPositions ==
    {positionTools(variant, ComponentGeometry(variant, props), s, tools) :
         s \in RandomStreams}

(* C8: after mount, with the props held constant, rendering itself triggers
   no further positioning pass: mount and each change of the props are
   followed by at most one pass. *)
C8_NoRenderLoop == passes <= 1

(* C9: whenever the component has settled, positionedTools holds the
   positions computed for the current ring radii and center, and these are
   the positions drawn. *)
C9_RecomputedOnResize ==
    Quiescent =>
        /\ positionedTools \in CurrentPositions
        /\ Len(positionedTools) # 0 =>
               /\ drawn.done
               /\ drawn.tools = positionedTools
               /\ drawn.geom = ComponentGeometry(variant, props)

(* C11: a single adopt tool in the ring (0, 25) has base angle exactly 45
   degrees, a final angle within the jitter bound 0.3 * 45 / 2 = 6.75
   degrees of it, and a radius in [7.5, 17.5], whatever its id. *)
C11_SingleAdopt ==
    (called /\ geom.ringRadii.adopt = 25000) =>
        \A p \in PlacedSet :
            (p.assessment = "adopt" /\ GroupSize(p) = 1) =>
                LET a == p.position.angle
                IN  /\ BaseAngle(p) = [num |-> 1, den |-> 2]
                    /\ 40 * a.num - 20 * a.den <= 3 * a.den
                    /\ 20 * a.den - 40 * a.num <= 3 * a.den
                    /\ FLe(Num(7500000), p.position.radius)
                    /\ FLe(p.position.radius, Num(17500000))

\* a lone adopt tool has been placed in the ring (0, 25), off the 45
\* degree line
C11_Witness ==
    /\ called
    /\ geom.ringRadii.adopt = 25000
    /\ \E p \in PlacedSet :
          /\ p.assessment = "adopt"
          /\ GroupSize(p) = 1
          /\ 2 * p.position.angle.num # p.position.angle.den

\* every tool has one of the four recognized assessments
WellFormed == \A i \in 1..Len(tools) : Recognized(tools[i])

(* C12: positionTools is total: on a well-formed input it never throws, and
   the empty input yields the empty output. *)
C12_Total ==
    /\ WellFormed => ~threw
    /\ (WellFormed /\ (called \/ threw) /\ tools = <<>>) => (called /\ positioned = <<>>)

\* positionTools has returned the empty output for the empty input
C12_Witness == called /\ ~threw /\ tools = <<>> /\ positioned = <<>>

(* C13: no operation of the widget mutates the loaded tool collection:
   positionTools, the alphabetical sort, the search filter and the sort of
   the flow board leave the order of the input array and every tool record
   as they were. *)
C13_InputNotMutated == [][tools' = tools]_vars

\* every operation has run on a dataset that is not in alphabetical order
C13_Witness ==
    /\ computed = {"alphabeticalTools", "toolsByCategory"}
    /\ called
    /\ searchTerm # <<>>
    /\ alphabeticalTools # tools

\* the titles in alphabetical order, letters first and case ignored
AlphabeticalTitles(ts) ==
    \A i, j \in 1..Len(ts) :
        i < j => ~CodeUnitsBefore(toLowerCase(ts[j].title), toLowerCase(ts[i].title))

(* C18: the flow board shows four boxes in the order aware, evaluate, trial,
   adopt; each box lists exactly the tools of its category, each once, in
   alphabetical order of title; every tool with a recognized assessment is
   in exactly one box; a category without tools has an empty box. *)
C18_FlowBoard ==
    "toolsByCategory" \in computed =>
        /\ [k \in 1..Len(toolsByCategory) |-> toolsByCategory[k].category]
              = <<"aware", "evaluate", "trial", "adopt">>
        /\ \A k \in 1..Len(toolsByCategory) :
              LET box == toolsByCategory[k]
              IN  /\ {box.tools[i] : i \in 1..Len(box.tools)}
                        = {tools[i] : i \in {j \in 1..Len(tools) :
                                               tools[j].assessment = box.category}}
                  /\ Len(box.tools) = Cardinality({j \in 1..Len(tools) :
                                               tools[j].assessment = box.category})
                  /\ AlphabeticalTitles(box.tools)
        /\ \A i \in 1..Len(tools) :
              Recognized(tools[i]) =>
                 Cardinality({<<k, j>> \in (1..Len(toolsByCategory)) \X (1..MaxTools) :
                                /\ j <= Len(toolsByCategory[k].tools)
                                /\ toolsByCategory[k].tools[j] = tools[i]}) = 1

\* a box of two tools that the sort reordered, next to an empty box, with a
\* tool of an unrecognized category in the dataset
C18_Witness ==
    /\ "toolsByCategory" \in computed
    /\ \E k \in 1..Len(toolsByCategory) :
          /\ Len(toolsByCategory[k].tools) = 2
          /\ toolsByCategory[k].tools # toolsInRing(tools, toolsByCategory[k].category)
    /\ \E k \in 1..Len(toolsByCategory) : toolsByCategory[k].tools = <<>>
    /\ \E i \in 1..Len(tools) : ~Recognized(tools[i])

\* the tool's angle lies within 0.15 step of rank * 90 / (n + 1) degrees,
\* n the number of tools of its own category: the reach of the jitter, less
\* than half a step, so that rank and n fix the base angle
OnOwnStep(p) ==
    LET a == p.position.angle
        n == GroupSize(p)
        i == GroupRank(p)
    IN  /\ 1000 * (n + 1) * a.num - 1000 * i * a.den <= 150 * a.den
        /\ 1000 * i * a.den - 1000 * (n + 1) * a.num <= 150 * a.den

\* the angle the tool gets when its category is the only one in the input
AngleAlone(p) ==
    LET alone == positionTools(variant, geom, <<0, 0>>, toolsInRing(tools, p.assessment))
    IN  alone[GroupRank(p)].position.angle

(* C20: in a category of n tools the i-th tool, in input order, is placed
   on base angle i * 90 / (n + 1) degrees; n counts the tools of that
   category only, so the angles of a category are those it has when the
   other categories are absent. *)
C20_AngularStep ==
    called => \A p \in PlacedSet :
        /\ OnOwnStep(p)
        /\ variant # "demo" => p.position.angle = AngleAlone(p)

\* three tools placed, two of them in one category and one in another
C20_Witness ==
    /\ called
    /\ Len(positioned) = 3
    /\ \E p, q \in PlacedSet : GroupSize(p) = 2 /\ GroupSize(q) = 1

\* ring bounds of the drawing, in 1/1000 unit
DrawnInner(a) ==
    IF a = "adopt" THEN 0 ELSE drawn.geom.ringRadii[RING_ORDER[indexOf(a)]]

DrawnOuter(a) == drawn.geom.ringRadii[a]

(* C15: every ring label is anchored at 45 degrees; the labels of adopt,
   trial and evaluate at radius (inner + outer) / 2 of their ring, the
   label of aware at its inner bound plus 40% of the distance from there to
   the available radius. *)
C15_LabelAnchor ==
    drawn.done => \A k \in 1..Len(drawn.labels) :
        LET l == drawn.labels[k]
            a == l.assessment
        IN  /\ 2 * l.angle.num = l.angle.den
            /\ a # "aware" => 2 * l.radius = DrawnInner(a) + DrawnOuter(a)
            /\ a = "aware" =>
                  10 * l.radius = 10 * DrawnInner(a)
                                    + 4 * (drawn.geom.maxRadius * 1000 - DrawnInner(a))

\* the two forms of a sector path
IsPieSlice(path, cx, cy, outer) ==
    path = <<<<"M", cx, cy>>, <<"L", cx, cy - outer>>,
             <<"A", outer, outer, 0, 0, 0, cx - outer, cy>>, <<"Z">>>>

IsDonutSector(path, cx, cy, inner, outer) ==
    path = <<<<"M", cx, cy - inner>>, <<"L", cx, cy - outer>>,
             <<"A", outer, outer, 0, 0, 0, cx - outer, cy>>,
             <<"L", cx - inner, cy>>,
             <<"A", inner, inner, 0, 0, 1, cx, cy - inner>>, <<"Z">>>>

(* C16: the sector of a ring with inner radius 0 is the pie slice from the
   center over (cx, cy - outer) and the arc to (cx - outer, cy); the sector
   of a ring with a positive inner radius is the donut sector from
   (cx, cy - inner) over (cx, cy - outer), the outer arc to (cx - outer, cy),
   the segment to (cx - inner, cy) and the inner arc back; the sector of
   adopt, and no other, is a pie slice. *)
C16_SectorPath ==
    drawn.done => \A k \in 1..Len(drawn.sectors) :
        LET sec   == drawn.sectors[k]
            cx    == drawn.geom.centerX * 1000
            cy    == drawn.geom.centerY * 1000
            inner == DrawnInner(sec.assessment)
            outer == DrawnOuter(sec.assessment)
        IN  /\ inner = 0 => IsPieSlice(sec.path, cx, cy, outer)
            /\ inner > 0 => IsDonutSector(sec.path, cx, cy, inner, outer)
            /\ Len(sec.path) = 4 <=> sec.assessment = "adopt"

\* a drawing with the pie slice of adopt and a donut sector beside it
C16_Witness ==
    /\ drawn.done
    /\ \E k \in 1..Len(drawn.sectors) : Len(drawn.sectors[k].path) = 4
    /\ \E k \in 1..Len(drawn.sectors) : Len(drawn.sectors[k].path) = 6

(* C17: the outline of every drawn ring of radius r is the single arc from
   (cx, cy - r) to (cx - r, cy) with radii (r, r), large-arc flag 0 and
   sweep flag 0, and the inner arc of every donut sector has sweep flag 1. *)
C17_ArcOutline ==
    drawn.done =>
        /\ \A k \in 1..Len(drawn.outlines) :
              LET r  == DrawnOuter(drawn.outlines[k].assessment)
                  cx == drawn.geom.centerX * 1000
                  cy == drawn.geom.centerY * 1000
              IN  drawn.outlines[k].path =
                      <<<<"M", cx, cy - r>>, <<"A", r, r, 0, 0, 0, cx - r, cy>>>>
        /\ \A k \in 1..Len(drawn.sectors) :
              Len(drawn.sectors[k].path) = 6 => drawn.sectors[k].path[5][6] = 1

(* C14: with the props held constant, once the radar has been drawn no
   blip mouseenter, mouseleave or click, no list hover or click and no
   change of the search term, nor any render that follows them, changes
   positionedTools in length, order or position. *)
C14_NoFeedback == [][drawn.done => positionedTools' = positionedTools]_vars

\* a tool is hovered from the list, another one selected and a search term
\* typed, all rendered, over a drawing of two blips
C14_Witness ==
    /\ ~scheduled
    /\ drawn.done
    /\ Len(positionedTools) = 2
    /\ hoveredFromList # Null
    /\ selectedTool.id # Null
    /\ selectedTool.id # hoveredFromList
    /\ searchTerm # <<>>

\* the panel shows what the selection and the hover state call for
PanelFollowsState ==
    LET panel == DetailsPanel(selectedTool, hoveredTool)
    IN  /\ selectedTool.id # Null =>
              panel = [kind |-> "tool-details", tool |-> selectedTool]
        /\ panel.kind = "tool-preview" <=>
              (selectedTool.id = Null /\ hoveredTool.id # Null)
        /\ panel.kind = "tool-preview" => panel.tool = hoveredTool
        /\ panel.kind = "placeholder" <=>
              (selectedTool.id = Null /\ hoveredTool.id = Null)

(* C19 (amended): the panel shows the details of selectedTool whenever a
   tool is selected, the preview of hoveredTool exactly when no tool is
   selected and a tool is hovered, and the placeholder exactly when neither
   is set; a click on a blip or on a list item whose id is found in
   positionedTools makes the panel show the details of that tool, a click
   on a list item whose id is not found leaves the selection as it was, and
   nothing but a click changes the selection. *)
C19_DetailsPanelOfPlaced ==
    /\ []PanelFollowsState
    /\ [][(BlipClick \/ ListClick) =>
             IF find(positionedTools, clicked').id # Null
             THEN /\ DetailsPanel(selectedTool', hoveredTool').kind = "tool-details"
                  /\ DetailsPanel(selectedTool', hoveredTool').tool
                        = find(positionedTools, clicked')
             ELSE selectedTool' = selectedTool]_vars
    /\ [][~(BlipClick \/ ListClick) => selectedTool' = selectedTool]_vars

(* C19 (as stated): when a tool has been clicked the panel shows the details
   of the tool of the last click, hovered tool or not; it shows the preview
   of hoveredTool exactly when no tool is selected and a tool is hovered,
   and the placeholder exactly when neither is set. *)
C19_DetailsPanel ==
    LET panel == DetailsPanel(selectedTool, hoveredTool)
    IN  /\ clicked # Null =>
              /\ panel.kind = "tool-details"
              /\ panel.tool.id = clicked
              /\ \E i \in 1..Len(tools) :
                    /\ tools[i].id = clicked
                    /\ panel.tool.title = tools[i].title
                    /\ panel.tool.description = tools[i].description
        /\ panel.kind = "tool-preview" <=>
              (selectedTool.id = Null /\ hoveredTool.id # Null)
        /\ panel.kind = "tool-preview" => panel.tool = hoveredTool
        /\ panel.kind = "placeholder" <=>
              (selectedTool.id = Null /\ hoveredTool.id = Null)

\* a tool is selected while another one is hovered
C19_Witness ==
    /\ clicked # Null
    /\ selectedTool.id = clicked
    /\ hoveredTool.id # Null
    /\ hoveredTool.id # clicked

(* C21: the final angle of every tool differs from its base angle
   i * step, 1 <= i <= n, by at most 0.3 step; the base angle is at least
   one step away from 0 and from 90 degrees; the final angle lies strictly
   between 0 and 90 degrees. *)
C21_JitterBound ==
    called => \A p \in PlacedSet :
        LET a == p.position.angle
            n == GroupSize(p)
            i == GroupRank(p)
        IN  /\ 1000 * (n + 1) * a.num - 1000 * i * a.den <= 300 * a.den
            /\ 1000 * i * a.den - 1000 * (n + 1) * a.num <= 300 * a.den
            /\ FracLe([num |-> 1, den |-> n + 1], BaseAngle(p))
            /\ FracLe(BaseAngle(p), [num |-> n, den |-> n + 1])
            /\ 0 < a.num
            /\ a.num < a.den

\* three tools of one category, the first pushed towards the 0 degree edge
\* and the last towards the 90 degree edge
C21_Witness ==
    /\ called
    /\ \E p, q \in PlacedSet :
          /\ GroupSize(p) = 3
          /\ GroupRank(p) = 1
          /\ FracLt(p.position.angle, BaseAngle(p))
          /\ q.assessment = p.assessment
          /\ GroupRank(q) = 3
          /\ FracLt(BaseAngle(q), q.position.angle)

\* the recurrence h <- 31 * h + charCode modulo 2^32, on the four base-256
\* digits of h, lowest first
RECURSIVE WrapBytes(_, _, _)
WrapBytes(str, i, b) ==
    IF i > Len(str) THEN b
    ELSE LET d0 == 31 * b[1] + str[i]
             d1 == 31 * b[2] + d0 \div 256
             d2 == 31 * b[3] + d1 \div 256
             d3 == 31 * b[4] + d2 \div 256
         IN  WrapBytes(str, i + 1, <<d0 % 256, d1 % 256, d2 % 256, d3 % 256>>)

\* the absolute value of the signed 32-bit number with these digits
AbsBytes(b) ==
    IF b[4] < 128 THEN b
    ELSE LET c0 == 256 - b[1]
             c1 == 255 - b[2] + c0 \div 256
             c2 == 255 - b[3] + c1 \div 256
             c3 == 255 - b[4] + c2 \div 256
         IN  <<c0 % 256, c1 % 256, c2 % 256, c3 % 256>>

WrappedHash(id) == AbsBytes(WrapBytes(id, 1, <<0, 0, 0, 0>>))

\* the number with these digits modulo 100, times k
BytesTimesMod100(b, k) == (k * (16 * b[4] + 36 * b[3] + 56 * b[2] + b[1])) % 100

(* C22: for every id, the empty one, those whose rolling hash wraps and the
   one whose hash is -2^31 included, hashCode is the absolute value of the
   signed 32-bit wrap of the 31 * h + charCode recurrence, a number of
   0..2^31; radiusRandom is that number modulo 100 over 100, in [0, 1);
   angleRandom is seven times that number modulo 100 over 100, less 0.5, in
   [-0.5, 0.5); the tool is placed with these two values. *)
C22_HashReduction ==
    called => \A p \in PlacedSet :
        LET h == hashCode(p.id)
            m == WrappedHash(p.id)
        IN  /\ h.lo = m[1] + 256 * m[2]
            /\ h.hi = m[3] + 256 * m[4]
            /\ h.lo \in 0..65535
            /\ h.hi \in 0..32768
            /\ h.hi = 32768 => h.lo = 0
            /\ radiusRandom(p.id) = BytesTimesMod100(m, 1)
            /\ radiusRandom(p.id) \in 0..99
            /\ angleRandom(p.id) = BytesTimesMod100(m, 7) - 50
            /\ angleRandom(p.id) \in (-50)..49
            /\ p.position.radius = Num(BandPoint(p.assessment, 300 + 4 * radiusRandom(p.id)))
            /\ p.position.angle.num = 1000 * GroupRank(p) + 3 * angleRandom(p.id)

\* the empty id, an id whose hash wraps to a negative number and the id
\* whose hash is -2^31 have been placed
C22_Witness ==
    /\ called
    /\ \E p \in PlacedSet : p.id = <<>>
    /\ \E p \in PlacedSet :
          /\ WrapBytes(p.id, 1, <<0, 0, 0, 0>>)[4] >= 128
          /\ WrapBytes(p.id, 1, <<0, 0, 0, 0>>) # <<0, 0, 0, 128>>
    /\ \E p \in PlacedSet : WrapBytes(p.id, 1, <<0, 0, 0, 0>>) = <<0, 0, 0, 128>>

\* two code units are the same letter, case ignored
SameLetter(a, b) ==
    \/ a = b
    \/ a \in 65..90 /\ b = a + 32
    \/ b \in 65..90 /\ a = b + 32

\* the text contains the term, case ignored
ContainsIgnoringCase(text, term) ==
    \E k \in 0..(Len(text) - Len(term)) :
        \A i \in 1..Len(term) : SameLetter(text[k + i], term[i])

\* place of a tool in a list, 0 when it is not there
PlaceIn(list, t) ==
    IF \E i \in 1..Len(list) : list[i] = t
    THEN CHOOSE i \in 1..Len(list) : list[i] = t
    ELSE 0

(* C23: the alphabetical list holds every tool once, in alphabetical order
   of title; with an empty or white-space search term the tool list is the
   alphabetical list; otherwise it holds exactly the tools whose title or
   description contains the term, case ignored; it is always a subsequence
   of the alphabetical list. *)
C23_SearchFilter ==
    "alphabeticalTools" \in computed =>
        /\ Len(alphabeticalTools) = Len(tools)
        /\ \A i \in 1..Len(tools) : PlaceIn(alphabeticalTools, tools[i]) # 0
        /\ AlphabeticalTitles(alphabeticalTools)
        /\ (\A i \in 1..Len(searchTerm) : searchTerm[i] = 32) =>
              filteredTools = alphabeticalTools
        /\ (\E i \in 1..Len(searchTerm) : searchTerm[i] # 32) =>
              \A i \in 1..Len(alphabeticalTools) :
                  LET t == alphabeticalTools[i]
                  IN  PlaceIn(filteredTools, t) # 0 <=>
                         \/ ContainsIgnoringCase(t.title, searchTerm)
                         \/ ContainsIgnoringCase(t.description, searchTerm)
        /\ \A i \in 1..Len(filteredTools) :
              PlaceIn(alphabeticalTools, filteredTools[i]) # 0
        /\ \A i, j \in 1..Len(filteredTools) :
              i < j => PlaceIn(alphabeticalTools, filteredTools[i])
                          < PlaceIn(alphabeticalTools, filteredTools[j])

\* the term "bc" is typed: it is found in the description "Bc" of one tool
\* only, and the list keeps that tool out of three
C23_Witness ==
    /\ "alphabeticalTools" \in computed
    /\ searchTerm = <<98, 99>>
    /\ Len(alphabeticalTools) = 3
    /\ alphabeticalTools # tools
    /\ Len(filteredTools) = 1

(* C24: in every drawing of DevToolRadar.tsx, once rendered: when
   hoveredFromList is the id of a tool, the blip of that tool, and no other,
   has radius 14 and stroke width 3, with opacity 1, and every other blip
   has opacity 0.3; when hoveredFromList is null, every blip has opacity 1
   and the blip of the selected tool, and no other, has radius 14. *)
C24_ListHoverHighlight ==
    (variant = "radar" /\ drawn.done /\ ~scheduled) =>
        \A i \in 1..Len(drawn.blips) :
            LET b == drawn.blips[i]
            IN  /\ hoveredFromList # Null =>
                      /\ b.id = hoveredFromList =>
                            b.r = 14 /\ b.strokeWidth = 3 /\ b.opacity = 10
                      /\ b.id # hoveredFromList =>
                            b.r = 10 /\ b.strokeWidth = 2 /\ b.opacity = 3
                /\ hoveredFromList = Null =>
                      /\ b.opacity = 10
                      /\ b.r = 14 <=> b.id = selectedTool.id

(* C25: in DevToolRadar.tsx, after any interleaving of mouseenter and
   mouseleave on blips and on list items, hoveredTool is null whenever
   hoveredFromList and hoveredFromBlip are both null. *)
C25_HoverState ==
    (variant = "radar" /\ hoveredFromList = Null /\ hoveredFromBlip = Null) =>
        hoveredTool = NoTool

\* the pointer has just left the last hovered blip or list item: nothing is
\* hovered, selected or searched, and the render of that change is due
C25_Witness ==
    /\ variant = "radar"
    /\ drawn.done
    /\ scheduled
    /\ ~pending.set
    /\ hoveredFromList = Null
    /\ hoveredFromBlip = Null
    /\ hoveredTool = NoTool
    /\ selectedTool = NoTool
    /\ searchTerm = <<>>
    /\ prev.hoveredFromList # Null

\* selectedTool is a tool of the dataset (with its position)
SelectedFromDataset ==
    \E i \in 1..Len(tools) :
        /\ selectedTool.id = tools[i].id
        /\ selectedTool.title = tools[i].title
        /\ selectedTool.description = tools[i].description
        /\ selectedTool.assessment = tools[i].assessment

(* C26: selectedTool starts null; it is null or a tool of the loaded
   dataset; once a click has set it to a tool the panel shows no
   placeholder, and no hover, click or search event nor any render sets it
   back to null. *)
C26_SelectionKept ==
    /\ selectedTool = NoTool
    /\ [](selectedTool.id # Null =>
             /\ SelectedFromDataset
             /\ DetailsPanel(selectedTool, hoveredTool).kind # "placeholder")
    /\ [][selectedTool.id # Null => selectedTool'.id # Null]_vars

\* a tool is selected, a term has been typed and the pointer has just left
\* what it hovered
C26_Witness ==
    /\ selectedTool.id # Null
    /\ clicked # Null
    /\ searchTerm # <<>>
    /\ hoveredTool = NoTool
    /\ hoveredFromList = Null
    /\ prev.hoveredFromList # Null

(* C27: of two placed tools of different recognized categories, the one
   whose category comes first in adopt, trial, evaluate, aware has the
   smaller radius, and the two are not placed on the same point. *)
C27_BandsOrdered ==
    called => \A p, q \in PlacedSet :
        (Recognized(p) /\ Recognized(q) /\ indexOf(p.assessment) < indexOf(q.assessment)) =>
            /\ FLt(p.position.radius, q.position.radius)
            /\ ~(p.position.x = q.position.x /\ p.position.y = q.position.y)

\* tools of three categories placed, the aware tool among them
C27_Witness ==
    /\ called
    /\ \E p, q, w \in PlacedSet :
          /\ Recognized(p)
          /\ indexOf(p.assessment) < indexOf(q.assessment)
          /\ indexOf(q.assessment) < indexOf(w.assessment)
          /\ w.assessment = "aware"

(* C28: handleToolListClick with an id that is not in positionedTools
   leaves selectedTool, and hoveredTool, as they were; handleToolListHover
   with such an id sets hoveredFromList to the id and leaves hoveredTool,
   and selectedTool, as they were. *)
C28_UnknownIdFrame ==
    [][/\ (ListClick /\ \A i \in 1..Len(positionedTools) :
                            positionedTools[i].id # clicked') =>
              /\ selectedTool' = selectedTool
              /\ hoveredTool' = hoveredTool
       /\ (ListMouseEnter /\ \A i \in 1..Len(positionedTools) :
                                 positionedTools[i].id # hoveredFromList') =>
              /\ hoveredFromList' \in ListItems
              /\ hoveredTool' = hoveredTool
              /\ selectedTool' = selectedTool]_vars

\* list items were hovered and clicked before the first positioning pass
\* reached positionedTools: an item is marked as hovered, no tool is hovered
\* or selected
C28_Witness ==
    /\ variant = "radar"
    /\ mounted
    /\ positionedTools = <<>>
    /\ hoveredFromList # Null
    /\ clicked # Null
    /\ hoveredTool = NoTool
    /\ selectedTool = NoTool

(* C29: while positionedTools is empty nothing has been drawn, and the
   draw effect run with an empty positionedTools leaves a drawing of the
   SVG as it is; whenever positionedTools is not empty the drawing has been
   made from it and holds one blip per element, the blip at place i for the
   tool at place i and numbered i. *)
C29_DrawGuard ==
    /\ Len(positionedTools) = 0 => ~drawn.done
    /\ drawEffect(variant, ComponentGeometry(variant, props), <<>>,
                  hoveredFromList, selectedTool, drawn) = drawn
    /\ Len(positionedTools) # 0 =>
          /\ drawn.done
          /\ drawn.tools = positionedTools
          /\ Len(drawn.blips) = Len(positionedTools)
          /\ \A i \in 1..Len(positionedTools) :
                /\ drawn.blips[i].id = positionedTools[i].id
                /\ drawn.blips[i].number = i

\* a drawing with several blips has been made and nothing more is scheduled
C29_Witness ==
    /\ mounted
    /\ ~scheduled
    /\ drawn.done
    /\ Len(drawn.blips) >= 2
    /\ Len(positionedTools) = Len(drawn.blips)

====
